---- MODULE Spec2Model ----
(***************************************************************************)
(* Benefits Finder API (src/main.py, src/schemas.py).                      *)
(*                                                                         *)
(* State: the process-wide storage handle `db`, the "benefit" collection,  *)
(* the seed_benefits calls in flight (a count, then four inserts, each a   *)
(* storage operation of its own), and one list/match request with its      *)
(* response.  Optional[T] is a sequence of length <= 1: None is <<>> and   *)
(* a present value v is <<v>>.  Strings are strings; str.lower() is the    *)
(* table Lower over the strings the model uses.                            *)
(***************************************************************************)
EXTENDS Integers, Sequences, FiniteSets, TLC

VARIABLES db, benefit, seed, seedLog, overlap, req, resp

vars == <<db, benefit, seed, seedLog, overlap, req, resp>>

---------------------------------------------------------------------------
(* Bounds of the model *)

\* the eligibility threshold the generated benefits carry
Threshold == 1
\* ages, incomes and dependents of the generated profiles are 0..MaxValue
MaxValue == 2
\* longest generated catalog in the ordering inputs
MaxCatalog == 3
\* concurrent seed_benefits calls
MaxSeeds == 2

(* Program constants *)

\* list_benefits(limit: Optional[int] = 50)
DefaultLimit == 50
\* HTTPException(status_code=500, ...)
StatusError == 500
\* the status of a handler that returns normally
StatusOK == 200

---------------------------------------------------------------------------
(* Optional values *)

None == <<>>

Some(v) == <<v>>

\* Python truthiness of an Optional[str]: neither None nor ""
TruthyStr(x) == x # None /\ x[1] # ""

\* Python truthiness of an Optional[bool]: neither None nor False
TruthyBool(x) == x # None /\ x[1]

\* Python truthiness of an Optional[List[str]]: neither None nor []
TruthyList(x) == x # None /\ Len(x[1]) > 0

\* str.lower() on the strings of the model
Lower(s) ==
    CASE s = "CA" -> "ca"
      [] s = "Ca" -> "ca"
      [] s = "NY" -> "ny"
      [] s = "Low-Income" -> "low-income"
      [] s = "FAMILY" -> "family"
      [] OTHER -> s

\* set([t.lower() for t in tags])
LowerSet(tags) == {Lower(tags[i]) : i \in 1..Len(tags)}

---------------------------------------------------------------------------
(* schemas.py *)

\* Benefit with every optional matching signal at its default
Benefit(name) ==
    [name |-> name,
     min_age |-> None, max_age |-> None, max_income |-> None,
     location |-> None,
     requires_disability |-> None, requires_veteran |-> None,
     requires_dependents |-> None,
     tags |-> Some(<<>>)]

\* Inquiry with every field at its default
Inquiry ==
    [age |-> None, income |-> None, location |-> None,
     disability |-> None, veteran |-> None, dependents |-> None,
     tags |-> Some(<<>>)]

\* the four records seed_benefits inserts
seed_data ==
    << [Benefit("SNAP (Food Assistance)") EXCEPT
            !.max_income = Some(30000),
            !.tags = Some(<<"low-income", "household">>)],
       [Benefit("Medicaid") EXCEPT
            !.max_income = Some(28000),
            !.tags = Some(<<"health", "low-income">>)],
       [Benefit("Pell Grant") EXCEPT
            !.max_income = Some(60000),
            !.min_age = Some(16),
            !.tags = Some(<<"students", "education">>)],
       [Benefit("Section 8 Housing Choice Voucher") EXCEPT
            !.max_income = Some(35000),
            !.requires_dependents = Some(TRUE),
            !.tags = Some(<<"housing", "family">>)] >>

---------------------------------------------------------------------------
(* database.py: the storage collaborator *)

\* a stored document: the model's fields plus the storage identifier
Document(b, oid) ==
    [oid |-> oid, name |-> b.name,
     min_age |-> b.min_age, max_age |-> b.max_age, max_income |-> b.max_income,
     location |-> b.location,
     requires_disability |-> b.requires_disability,
     requires_veteran |-> b.requires_veteran,
     requires_dependents |-> b.requires_dependents,
     tags |-> b.tags]

\* create_document("benefit", item): one insert at the end of the collection
create_document(coll, item) == Append(coll, Document(item, Len(coll) + 1))

\* get_documents("benefit", {}, limit): up to limit documents, in storage order
get_documents(coll, limit) ==
    IF limit = None \/ limit[1] >= Len(coll)
    THEN coll
    ELSE SubSeq(coll, 1, limit[1])

\* d.pop("_id", None); Benefit(**d)
CleanDocument(d) ==
    [name |-> d.name,
     min_age |-> d.min_age, max_age |-> d.max_age, max_income |-> d.max_income,
     location |-> d.location,
     requires_disability |-> d.requires_disability,
     requires_veteran |-> d.requires_veteran,
     requires_dependents |-> d.requires_dependents,
     tags |-> d.tags]

\* list_benefits(limit): the cleaned documents, in the order fetched
list_benefits(coll, limit) ==
    LET docs == get_documents(coll, limit)
    IN  [i \in 1..Len(docs) |-> CleanDocument(docs[i])]

---------------------------------------------------------------------------
(* match_benefits: the rules applied to one benefit, in the code's order *)

IncomeCompared(profile, b) == profile.income # None /\ b.max_income # None

\* fault: the cap made exclusive
IncomeWithinStrict(profile, b) == profile.income[1] < b.max_income[1]

\* profile.income <= b.max_income
IncomeWithin(profile, b) == profile.income[1] <= b.max_income[1]

\* the else branch of the income test: continue
IncomeFails(profile, b) == IncomeCompared(profile, b) /\ ~IncomeWithin(profile, b)

\* fault: the minimum age made exclusive
MinAgeFailsInclusive(profile, b) ==
    b.min_age # None /\ profile.age # None /\ profile.age[1] <= b.min_age[1]

MinAgeFails(profile, b) ==
    b.min_age # None /\ profile.age # None /\ profile.age[1] < b.min_age[1]

MaxAgeFails(profile, b) ==
    b.max_age # None /\ profile.age # None /\ profile.age[1] > b.max_age[1]

\* fault: the locations compared without lower()
LocationFailsCaseSensitive(profile, b) ==
    TruthyStr(b.location) /\ TruthyStr(profile.location)
    /\ b.location[1] # profile.location[1]

LocationFails(profile, b) ==
    TruthyStr(b.location) /\ TruthyStr(profile.location)
    /\ Lower(b.location[1]) # Lower(profile.location[1])

\* fault: an unset profile flag taken to satisfy the requirement
DisabilityFailsOnFalseOnly(profile, b) ==
    TruthyBool(b.requires_disability) /\ profile.disability = Some(FALSE)

DisabilityFails(profile, b) ==
    TruthyBool(b.requires_disability) /\ ~TruthyBool(profile.disability)

VeteranFails(profile, b) ==
    TruthyBool(b.requires_veteran) /\ ~TruthyBool(profile.veteran)

\* fault: dependents == 0 taken to satisfy the requirement
DependentsFailsOnNoneOnly(profile, b) ==
    TruthyBool(b.requires_dependents) /\ profile.dependents = None

DependentsFails(profile, b) ==
    TruthyBool(b.requires_dependents)
    /\ (profile.dependents = None \/ profile.dependents[1] = 0)

\* shared = set(lowered profile tags) & set(lowered benefit tags); if shared
TagsShared(profile, b) ==
    TruthyList(profile.tags) /\ TruthyList(b.tags)
    /\ LowerSet(profile.tags[1]) \cap LowerSet(b.tags[1]) # {}

\* score at the accept test: +2 for income within the cap, +1 for shared tags
Score(profile, b) ==
    (IF IncomeCompared(profile, b) /\ IncomeWithin(profile, b) THEN 2 ELSE 0)
    + (IF TagsShared(profile, b) THEN 1 ELSE 0)

\* fault: the accept test made strict
AcceptScorePositive(score) == score > 0

\* if score >= 0: matches.append(b)
AcceptScore(score) == score >= 0

\* which continue the loop body takes for b, or the accept test's outcome
Verdict(profile, b) ==
    IF IncomeFails(profile, b) THEN "income"
    ELSE IF MinAgeFails(profile, b) THEN "min_age"
    ELSE IF MaxAgeFails(profile, b) THEN "max_age"
    ELSE IF LocationFails(profile, b) THEN "location"
    ELSE IF DisabilityFails(profile, b) THEN "disability"
    ELSE IF VeteranFails(profile, b) THEN "veteran"
    ELSE IF DependentsFails(profile, b) THEN "dependents"
    ELSE IF AcceptScore(Score(profile, b)) THEN "accepted"
    ELSE "score"

\* fault: the match put at the front of the list
AppendFront(matches, b) == <<b>> \o matches

\* matches.append(b)
AppendMatch(matches, b) == Append(matches, b)

\* for b in benefits: ... ; the list matches after the first n benefits
RECURSIVE MatchLoop(_, _, _)
MatchLoop(profile, benefits, n) ==
    IF n = 0
    THEN <<>>
    ELSE LET matches == MatchLoop(profile, benefits, n - 1)
         IN  IF Verdict(profile, benefits[n]) = "accepted"
             THEN AppendMatch(matches, benefits[n])
             ELSE matches

\* the body of match_benefits once the catalog is fetched
match_benefits(profile, benefits) == MatchLoop(profile, benefits, Len(benefits))

---------------------------------------------------------------------------
(* State of the calls *)

SeedIds == 1..MaxSeeds

\* a seed_benefits call that has not started
SeedIdle == [pc |-> "idle", next |-> 0, inserted |-> 0, status |-> 0, ops |-> 0]

\* no response sent yet
Pending ==
    [status |-> 0, ops |-> 0, fetched |-> <<>>, body |-> <<>>,
     verdicts |-> <<>>, scores |-> <<>>]

\* HTTPException(status_code=500), after ops storage operations
Failure(ops) == [Pending EXCEPT !.status = StatusError, !.ops = ops]

ListRequest(limit) == [endpoint |-> "list", profile |-> Inquiry, limit |-> limit]

MatchRequest(profile) ==
    [endpoint |-> "match", profile |-> profile, limit |-> Some(DefaultLimit)]

---------------------------------------------------------------------------
(* Handlers *)

\* fault: a handler without its guard
GuardSkipped == FALSE

\* seed_benefits: if db is None
SeedDbMissing == ~db

\* match_benefits: if db is None
MatchDbMissing == ~db

\* get_documents with no storage handle: raises before it reads
GetDocumentsRaises == ~db

\* an operation on the collection of a handle that is None cannot succeed
CollectionFails == ~db

\* fault: the seed made unconditional
SeedNeverSkips(existing) == FALSE

\* if existing > 0: return {"inserted": 0}
CatalogNonEmpty(existing) == existing > 0

\* seed_benefits up to its first return: the guard, count_documents, the test
SeedCall(t) ==
    /\ seed[t].pc = "idle"
    /\ overlap' = (overlap \/ \E u \in SeedIds : u # t /\ seed[u].pc = "insert")
    /\ IF SeedDbMissing
       THEN /\ seed' = [seed EXCEPT ![t] =
                          [@ EXCEPT !.pc = "done", !.status = StatusError]]
            /\ UNCHANGED seedLog
       ELSE IF CollectionFails
       THEN /\ seed' = [seed EXCEPT ![t] =
                          [@ EXCEPT !.pc = "done", !.status = StatusError,
                                    !.ops = 1]]
            /\ UNCHANGED seedLog
       ELSE IF CatalogNonEmpty(Len(benefit))
       THEN /\ seed' = [seed EXCEPT ![t] =
                          [@ EXCEPT !.pc = "done", !.status = StatusOK,
                                    !.ops = 1]]
            /\ seedLog' = Append(seedLog, 0)
       ELSE /\ seed' = [seed EXCEPT ![t] =
                          [@ EXCEPT !.pc = "insert", !.next = 1, !.ops = 1]]
            /\ UNCHANGED seedLog
    /\ UNCHANGED <<db, benefit, req, resp>>

\* one turn of: for item in seed_data: create_document(...); inserted += 1
\* and, after the last one, return {"inserted": inserted}
SeedInsert(t) ==
    /\ seed[t].pc = "insert"
    /\ benefit' = create_document(benefit, seed_data[seed[t].next])
    /\ IF seed[t].next = Len(seed_data)
       THEN /\ seed' = [seed EXCEPT ![t] =
                          [@ EXCEPT !.pc = "done", !.status = StatusOK,
                                    !.inserted = @ + 1, !.ops = @ + 1]]
            /\ seedLog' = Append(seedLog, seed[t].inserted + 1)
       ELSE /\ seed' = [seed EXCEPT ![t] =
                          [@ EXCEPT !.next = @ + 1, !.inserted = @ + 1,
                                    !.ops = @ + 1]]
            /\ UNCHANGED seedLog
    /\ UNCHANGED <<db, overlap, req, resp>>

\* GET /api/benefits?limit=N
ListBenefits ==
    /\ req.endpoint = "list"
    /\ resp.status = 0
    /\ resp' = IF GetDocumentsRaises
               THEN Failure(0)
               ELSE LET cleaned == list_benefits(benefit, req.limit)
                    IN  [Pending EXCEPT !.status = StatusOK, !.ops = 1,
                                        !.fetched = cleaned, !.body = cleaned]
    /\ UNCHANGED <<db, benefit, seed, seedLog, overlap, req>>

\* POST /api/match
MatchBenefits ==
    /\ req.endpoint = "match"
    /\ resp.status = 0
    /\ resp' = IF MatchDbMissing
               THEN Failure(0)
               ELSE IF GetDocumentsRaises
               THEN Failure(0)
               ELSE LET benefits == list_benefits(benefit, Some(DefaultLimit))
                    IN  [status |-> StatusOK, ops |-> 1,
                         fetched |-> benefits,
                         body |-> match_benefits(req.profile, benefits),
                         verdicts |-> [i \in 1..Len(benefits) |->
                                          Verdict(req.profile, benefits[i])],
                         scores |-> [i \in 1..Len(benefits) |->
                                        Score(req.profile, benefits[i])]]
    /\ UNCHANGED <<db, benefit, seed, seedLog, overlap, req>>

---------------------------------------------------------------------------
(* The service: storage configured or not, an empty catalog, concurrent    *)
(* seed calls and one list or match request                                *)

\* the profiles of the match requests sent to the service
ServiceProfiles ==
    { [Inquiry EXCEPT !.age = Some(20), !.income = Some(25000)],
      [Inquiry EXCEPT !.age = Some(20), !.income = Some(45000)],
      [Inquiry EXCEPT !.age = Some(15), !.income = Some(28000),
                      !.dependents = Some(1),
                      !.tags = Some(<<"FAMILY">>)] }

ServiceRequests ==
    {ListRequest(Some(DefaultLimit)), ListRequest(Some(2))}
    \cup {MatchRequest(p) : p \in ServiceProfiles}

Init ==
    /\ db \in BOOLEAN
    /\ benefit = <<>>
    /\ seed = [t \in SeedIds |-> SeedIdle]
    /\ seedLog = <<>>
    /\ overlap = FALSE
    /\ req \in ServiceRequests
    /\ resp = Pending

Next ==
    \/ \E t \in SeedIds : SeedCall(t)
    \/ \E t \in SeedIds : SeedInsert(t)
    \/ ListBenefits
    \/ MatchBenefits

Spec == Init /\ [][Next]_vars

---------------------------------------------------------------------------
(* The matcher over generated catalogs and profiles *)

OptValue == {None} \cup {Some(v) : v \in 0..MaxValue}

OptBool == {None, Some(FALSE), Some(TRUE)}

OptThreshold == {None, Some(Threshold)}

BenefitLocations == {None, Some(""), Some("CA"), Some("Ca")}

ProfileLocations == {None, Some(""), Some("ca"), Some("NY")}

\* benefit tags that share a tag with ProfileTags' non-empty list
SharingTags == Some(<<"Low-Income", "health">>)

\* benefit tags that share none
OtherTags == {None, Some(<<>>), Some(<<"housing">>)}

ProfileTags == {None, Some(<<>>), Some(<<"low-income", "FAMILY">>)}

\* every combination of the income, age and location signals; the three
\* requirement flags all unset or all set
NumericBenefits ==
    { [Benefit("P") EXCEPT !.max_income = mi, !.min_age = lo, !.max_age = hi,
                           !.location = loc,
                           !.requires_disability = f, !.requires_veteran = f,
                           !.requires_dependents = f] :
        mi \in OptThreshold, lo \in OptThreshold, hi \in OptThreshold,
        loc \in BenefitLocations, f \in {None, Some(TRUE)} }

NumericProfiles ==
    { [Inquiry EXCEPT !.age = a, !.income = inc, !.location = loc,
                      !.disability = f, !.veteran = f,
                      !.dependents = IF f = None THEN None ELSE Some(1),
                      !.tags = t] :
        a \in OptValue, inc \in OptValue, loc \in ProfileLocations,
        f \in {None, Some(TRUE)}, t \in ProfileTags }

\* every combination of the three requirement flags; the income, age and
\* location signals all unset or all set
FlagBenefits ==
    { [Benefit("P") EXCEPT !.requires_disability = d, !.requires_veteran = v,
                           !.requires_dependents = k,
                           !.max_income = n, !.min_age = n, !.max_age = n,
                           !.location = IF n = None THEN None ELSE Some("CA")] :
        d \in OptBool, v \in OptBool, k \in OptBool, n \in OptThreshold }

FlagProfiles ==
    { [Inquiry EXCEPT !.disability = d, !.veteran = v, !.dependents = k,
                      !.age = IF inc = None THEN None ELSE Some(Threshold),
                      !.income = inc,
                      !.location = IF inc = None THEN None ELSE Some("ca"),
                      !.tags = t] :
        d \in OptBool, v \in OptBool, k \in OptValue,
        inc \in {None, Some(Threshold), Some(MaxValue)}, t \in ProfileTags }

\* a catalog of two benefits identical except for their tags
TagPairs(b) ==
    { << [b EXCEPT !.tags = SharingTags], [b EXCEPT !.tags = t] >> :
        t \in OtherTags }

\* the benefits of the catalogs that vary in length and order
OrderPool ==
    { [Benefit("A") EXCEPT !.max_income = Some(Threshold)],
      [Benefit("B") EXCEPT !.requires_dependents = Some(TRUE),
                           !.tags = SharingTags],
      [Benefit("C") EXCEPT !.requires_veteran = Some(TRUE)] }

OrderCatalogs == UNION {[1..n -> OrderPool] : n \in 0..MaxCatalog}

\* the documents of a catalog as the collection holds them
Stored(catalog) == [i \in 1..Len(catalog) |-> Document(catalog[i], i)]

InitMatch ==
    /\ db = TRUE
    /\ seed = [t \in SeedIds |-> SeedIdle]
    /\ seedLog = <<>>
    /\ overlap = FALSE
    /\ resp = Pending
    /\ \/ \E b \in NumericBenefits, p \in NumericProfiles :
             \E c \in TagPairs(b) :
                benefit = Stored(c) /\ req = MatchRequest(p)
       \/ \E b \in FlagBenefits, p \in FlagProfiles :
             \E c \in TagPairs(b) :
                benefit = Stored(c) /\ req = MatchRequest(p)
       \/ \E c \in OrderCatalogs, p \in FlagProfiles :
             benefit = Stored(c) /\ req = MatchRequest(p)
       \/ \E c \in OrderCatalogs, l \in {Some(1), Some(DefaultLimit)} :
             benefit = Stored(c) /\ req = ListRequest(l)

NextMatch == ListBenefits \/ MatchBenefits

SpecMatch == InitMatch /\ [][NextMatch]_vars

---------------------------------------------------------------------------
(* Vocabulary of the properties *)

\* strings that are equal when case is ignored
CaseClasses ==
    { {"CA", "ca", "Ca"}, {"NY", "ny"}, {"Low-Income", "low-income"},
      {"FAMILY", "family"} }

SameIgnoringCase(x, y) == x = y \/ \E c \in CaseClasses : x \in c /\ y \in c

\* a match request answered with a result
Matched == req.endpoint = "match" /\ resp.status = StatusOK

\* the catalog as list_benefits hands it to the matcher
Catalog == [i \in 1..Len(benefit) |-> CleanDocument(benefit[i])]

InBody(b) == \E k \in 1..Len(resp.body) : resp.body[k] = b

RECURSIVE IsSubsequence(_, _)
IsSubsequence(s, t) ==
    IF s = <<>> THEN TRUE
    ELSE IF t = <<>> THEN FALSE
    ELSE IF Head(s) = Head(t) THEN IsSubsequence(Tail(s), Tail(t))
    ELSE IsSubsequence(s, Tail(t))

RECURSIVE SumSeq(_)
SumSeq(s) == IF s = <<>> THEN 0 ELSE Head(s) + SumSeq(Tail(s))

AllSeedsDone == \A t \in SeedIds : seed[t].pc = "done"

\* the profile has a tag that some tag of b equals when case is ignored
SharesTag(p, b) ==
    /\ p.tags # None
    /\ b.tags # None
    /\ \E i \in 1..Len(p.tags[1]), j \in 1..Len(b.tags[1]) :
          SameIgnoringCase(p.tags[1][i], b.tags[1][j])

SameExceptTags(b1, b2) == [b1 EXCEPT !.tags = None] = [b2 EXCEPT !.tags = None]

IsSet(x) == x # None

NonEmpty(x) == x # None /\ x[1] # ""

---------------------------------------------------------------------------
(* Properties of the service (Spec) *)

\* C1: with storage configured and an empty catalog at the start, seed calls
\* made one after the other insert the four fixed records exactly once: the
\* first call reports inserted = 4, every later call reports inserted = 0,
\* and the catalog holds exactly the four seed records.
C1_SeedIdempotent ==
    (db /\ ~overlap /\ Len(seedLog) >= 2) =>
        /\ seedLog[1] = 4
        /\ \A k \in 2..Len(seedLog) : seedLog[k] = 0
        /\ Catalog = seed_data

C1_Witness ==
    db /\ ~overlap /\ AllSeedsDone /\ Len(seedLog) >= 2 /\ Len(benefit) = 4

C10_SeedInterleaving ==
    db =>
        /\ Len(benefit) <= 4
        /\ \A i, j \in 1..Len(benefit) :
              benefit[i].name = benefit[j].name => i = j
        /\ AllSeedsDone => SumSeq(seedLog) = 4

---------------------------------------------------------------------------
(* Properties of the matcher (SpecMatch) *)

\* C3: whenever the profile's income and a benefit's max_income are both set,
\* income > max_income keeps the benefit out of the match result whatever the
\* other fields are, and income <= max_income (equality included) means the
\* income rule is not what excludes it.
C3_IncomeHardExclusion ==
    Matched =>
        \A i \in 1..Len(resp.fetched) :
            LET b == resp.fetched[i]
                p == req.profile
            IN  (IsSet(p.income) /\ IsSet(b.max_income)) =>
                    /\ p.income[1] > b.max_income[1] => ~InBody(b)
                    /\ p.income[1] <= b.max_income[1] =>
                           resp.verdicts[i] # "income"

C3_Witness ==
    /\ Matched
    /\ \E i \in 1..Len(resp.fetched) :
          /\ IsSet(req.profile.income)
          /\ IsSet(resp.fetched[i].max_income)
          /\ req.profile.income[1] > resp.fetched[i].max_income[1]
          /\ resp.fetched[i].requires_veteran = Some(TRUE)
          /\ req.profile.veteran = Some(TRUE)
          /\ SharesTag(req.profile, resp.fetched[i])
          /\ resp.verdicts[i] = "income"
          /\ ~InBody(resp.fetched[i])

\* C4: the match result is a subsequence of the catalog as fetched: the
\* surviving benefits keep the catalog's relative order and none appears more
\* often than in the catalog.
C4_OrderPreserved ==
    Matched =>
        /\ resp.fetched = Catalog
        /\ IsSubsequence(resp.body, Catalog)

C4_Witness ==
    /\ Matched
    /\ Len(resp.body) >= 2
    /\ Len(resp.body) < Len(Catalog)
    /\ resp.body[1] # resp.body[2]
    /\ \E i, j \in 1..Len(Catalog) :
          /\ i < j
          /\ Catalog[i] = resp.body[1]
          /\ Catalog[j] = resp.body[2]
          /\ resp.scores[i] < resp.scores[j]

\* C5: two benefits of the catalog that are identical except for their tags,
\* one sharing a tag with the profile (case ignored) and the other sharing
\* none or having none, are both in the match result or both out of it.
C5_TagsNeverExclude ==
    Matched =>
        \A i, j \in 1..Len(resp.fetched) :
            LET b1 == resp.fetched[i]
                b2 == resp.fetched[j]
            IN  (/\ SameExceptTags(b1, b2)
                 /\ SharesTag(req.profile, b1)
                 /\ ~SharesTag(req.profile, b2)) =>
                    (InBody(b1) <=> InBody(b2))

C5_Witness ==
    /\ Matched
    /\ \E i, j \in 1..Len(resp.fetched) :
          /\ SameExceptTags(resp.fetched[i], resp.fetched[j])
          /\ SharesTag(req.profile, resp.fetched[i])
          /\ ~SharesTag(req.profile, resp.fetched[j])
          /\ InBody(resp.fetched[i])
          /\ InBody(resp.fetched[j])
          /\ resp.scores[i] = 1
          /\ resp.scores[j] = 0

\* C6 as stated: whenever benefit.location and profile.location are both
\* present, for every string value, the benefit is excluded exactly when the
\* two differ with case ignored; when either is absent the location rule
\* never excludes.
C6_LocationRuleAsStated ==
    Matched =>
        \A i \in 1..Len(resp.fetched) :
            LET b == resp.fetched[i]
                p == req.profile
            IN  IF IsSet(b.location) /\ IsSet(p.location)
                THEN /\ ~SameIgnoringCase(b.location[1], p.location[1]) =>
                            ~InBody(b)
                     /\ SameIgnoringCase(b.location[1], p.location[1]) =>
                            resp.verdicts[i] # "location"
                ELSE resp.verdicts[i] # "location"

\* C6 as amended: whenever benefit.location and profile.location are both
\* present and neither is the empty string, the benefit is excluded exactly
\* when the two differ with case ignored; when either is absent or empty the
\* location rule never excludes.
C6_LocationRule ==
    Matched =>
        \A i \in 1..Len(resp.fetched) :
            LET b == resp.fetched[i]
                p == req.profile
            IN  IF NonEmpty(b.location) /\ NonEmpty(p.location)
                THEN /\ ~SameIgnoringCase(b.location[1], p.location[1]) =>
                            ~InBody(b)
                     /\ SameIgnoringCase(b.location[1], p.location[1]) =>
                            resp.verdicts[i] # "location"
                ELSE resp.verdicts[i] # "location"

C6_Witness ==
    /\ Matched
    /\ req.profile.location = Some("ca")
    /\ \E i \in 1..Len(resp.fetched) :
          resp.fetched[i].location = Some("CA") /\ InBody(resp.fetched[i])

\* C7: a benefit with requires_dependents = true is out of the result for a
\* profile whose dependents is 0 or unset and is not excluded by the
\* dependents rule when dependents >= 1; a benefit with requires_dependents
\* false or unset is never excluded by the dependents rule.
C7_DependentsRule ==
    Matched =>
        \A i \in 1..Len(resp.fetched) :
            LET b == resp.fetched[i]
                p == req.profile
            IN  IF b.requires_dependents = Some(TRUE)
                THEN IF p.dependents = None \/ p.dependents = Some(0)
                     THEN ~InBody(b)
                     ELSE resp.verdicts[i] # "dependents"
                ELSE resp.verdicts[i] # "dependents"

C7_Witness ==
    /\ Matched
    /\ req.profile.dependents = Some(0)
    /\ \E i \in 1..Len(resp.fetched) :
          /\ resp.fetched[i].requires_dependents = Some(TRUE)
          /\ resp.verdicts[i] = "dependents"
          /\ ~InBody(resp.fetched[i])

\* C8: a benefit with requires_veteran = true (requires_disability = true) is
\* out of the result for a profile whose veteran (disability) flag is false or
\* unset and is not excluded by that rule when the flag is true; a benefit
\* whose requirement is false or unset is never excluded by that rule.
C8_FlagRules ==
    Matched =>
        \A i \in 1..Len(resp.fetched) :
            LET b == resp.fetched[i]
                p == req.profile
            IN  /\ IF b.requires_veteran = Some(TRUE)
                   THEN IF p.veteran = Some(TRUE)
                        THEN resp.verdicts[i] # "veteran"
                        ELSE ~InBody(b)
                   ELSE resp.verdicts[i] # "veteran"
                /\ IF b.requires_disability = Some(TRUE)
                   THEN IF p.disability = Some(TRUE)
                        THEN resp.verdicts[i] # "disability"
                        ELSE ~InBody(b)
                   ELSE resp.verdicts[i] # "disability"

C8_Witness ==
    /\ Matched
    /\ req.profile.veteran = None
    /\ req.profile.disability = Some(TRUE)
    /\ \E i \in 1..Len(resp.fetched) :
          /\ resp.fetched[i].requires_veteran = Some(TRUE)
          /\ resp.fetched[i].requires_disability = Some(TRUE)
          /\ resp.verdicts[i] = "veteran"
          /\ ~InBody(resp.fetched[i])

\* the income and age rules, skipped when either value is absent
NumericRuleExcludes(p, b) ==
    \/ IsSet(p.income) /\ IsSet(b.max_income) /\ p.income[1] > b.max_income[1]
    \/ IsSet(p.age) /\ IsSet(b.min_age) /\ p.age[1] < b.min_age[1]
    \/ IsSet(p.age) /\ IsSet(b.max_age) /\ p.age[1] > b.max_age[1]

\* the disability, veteran and dependents rules, skipped unless required
FlagRuleExcludes(p, b) ==
    \/ b.requires_disability = Some(TRUE) /\ p.disability # Some(TRUE)
    \/ b.requires_veteran = Some(TRUE) /\ p.veteran # Some(TRUE)
    \/ b.requires_dependents = Some(TRUE)
       /\ (p.dependents = None \/ p.dependents = Some(0))

\* the location rule, skipped when either location is absent
LocationRuleExcludesAsStated(p, b) ==
    /\ IsSet(b.location)
    /\ IsSet(p.location)
    /\ ~SameIgnoringCase(b.location[1], p.location[1])

\* the location rule, skipped when either location is absent or empty
LocationRuleExcludes(p, b) ==
    /\ NonEmpty(b.location)
    /\ NonEmpty(p.location)
    /\ ~SameIgnoringCase(b.location[1], p.location[1])

\* what C9 says of one benefit, for a given set of hard rules
SurvivalIs(i, excluded) ==
    /\ InBody(resp.fetched[i]) <=> ~excluded
    /\ ~excluded =>
          resp.verdicts[i] = "accepted" /\ resp.scores[i] \in {0, 1, 2, 3}

\* a match request with storage configured is answered with a result that
\* covers the whole catalog
MatcherTotal ==
    (req.endpoint = "match" /\ db /\ resp.status # 0) =>
        /\ resp.status = StatusOK
        /\ Len(resp.verdicts) = Len(Catalog)

\* C9 as stated: a benefit is in the match result if and only if none of the
\* seven hard rules excludes it, the location rule being skipped only when a
\* location is absent; at the accept test the score is one of 0, 1, 2, 3, so
\* score >= 0 never rejects, and the matcher answers every valid input.
C9_SurvivalAsStated ==
    /\ MatcherTotal
    /\ Matched =>
          \A i \in 1..Len(resp.fetched) :
              SurvivalIs(i, \/ NumericRuleExcludes(req.profile, resp.fetched[i])
                            \/ LocationRuleExcludesAsStated(req.profile,
                                                            resp.fetched[i])
                            \/ FlagRuleExcludes(req.profile, resp.fetched[i]))

\* C9 as amended: the same, the location rule being skipped when either
\* location is absent or the empty string.
C9_Survival ==
    /\ MatcherTotal
    /\ Matched =>
          \A i \in 1..Len(resp.fetched) :
              SurvivalIs(i, \/ NumericRuleExcludes(req.profile, resp.fetched[i])
                            \/ LocationRuleExcludes(req.profile, resp.fetched[i])
                            \/ FlagRuleExcludes(req.profile, resp.fetched[i]))

C9_Witness ==
    /\ Matched
    /\ \E i \in 1..Len(resp.fetched) :
          /\ resp.fetched[i].min_age = req.profile.age
          /\ resp.fetched[i].max_age = req.profile.age
          /\ IsSet(req.profile.age)
          /\ resp.fetched[i].requires_veteran = Some(TRUE)
          /\ InBody(resp.fetched[i])
          /\ resp.scores[i] = 3

====
